---- MODULE Spec2Model ----
(***************************************************************************)
(* Specified values, the specified value store, the declaration importer   *)
(* and the cascade of rsvg_internals/src/properties.rs; the element stack   *)
(* of rsvg_internals/src/xml.rs.                                           *)
(***************************************************************************)
EXTENDS Integers, Sequences, FiniteSets, TLC

(***************************************************************************)
(* Bounds of the model.                                                    *)
(***************************************************************************)
\* property values are 0..MaxVal; 0 is the type default of every kind
MaxVal == 1
\* number of operations in one behaviour of the store and the importer
MaxOps == 3
\* number of declarations in one merge pass
MaxImportOps == 3
\* number of operations in one behaviour of the marker store and its cascade
MaxMarkerOps == 2
\* number of operations in one behaviour of the cascade
MaxCascadeOps == 3
\* number of calls of the presentation-attribute adapter in one behaviour
MaxAttrOps == 2
\* number of attributes in one attribute bag
MaxBagLen == 2
\* number of operations in one behaviour of the query helpers
MaxQueryOps == 3
\* number of set_property calls in one behaviour of the bare store
MaxStoreOps == 2
\* number of calls on the store that is filled with every identity
MaxFillOps == 48
\* number of declarations in a style text, and of style texts parsed
MaxListLen == 3
MaxStyleOps == 2
\* number of element events in one behaviour of the XML state
MaxXmlOps == 4
\* number of events in one behaviour of the character data
MaxCharsOps == 5
\* number of calls in one behaviour of the path builder, and the largest
\* coordinate
MaxPathOps == 4
MaxCoord == 1

(***************************************************************************)
(* enum PropertyId (#[repr(u8)]): the discriminants the model names.       *)
(***************************************************************************)
BaselineShift == 0
Display == 6
FontSize == 15
Marker == 22
MarkerEnd == 23
MarkerMid == 24
MarkerStart == 25
Opacity == 27
Overflow == 28
StrokeWidth == 39
Visibility == 44
XmlLang == 46
XmlSpace == 47
UnsetProperty == 48

\* every discriminant of PropertyId but the sentinel
PropertyIds == 0 .. (UnsetProperty - 1)

\* width of the entries of SpecifiedValues::indices
U8 == 256

(***************************************************************************)
(* enum SpecifiedValue<T>                                                  *)
(***************************************************************************)
Unspecified == [state |-> "Unspecified", v |-> 0]
Inherit == [state |-> "Inherit", v |-> 0]
Specified(v) == [state |-> "Specified", v |-> v]

\* the absolute values of a property, and the one font-relative value ("1em")
\* that the kinds computed from the font size can be given
Values == 0 .. MaxVal
FontRelative == MaxVal + 1
SpecifiedValue == {Unspecified, Inherit} \cup {Specified(v) : v \in Values}

\* the store clones the values and never reads them: the default and one
\* other value tell every outcome of its operations apart
StoreValues == {0, MaxVal}

\* parse_input: the specified values a parsed text gives
ParsedValues == {Inherit} \cup {Specified(v) : v \in StoreValues}

\* enum ParsedProperty: which property this is, plus its value
ParsedProperty(id, sv) == [id |-> id, sv |-> sv]

get_property_id(prop) == prop.id

(***************************************************************************)
(* How a call can end: normally, or in one of the panics of the code.      *)
(***************************************************************************)
NoPanic == "none"
ShorthandPanic == "should have processed shorthands earlier"
UnreachablePanic == "unreachable"
BoundsPanic == "index out of bounds"
RootPanic == "The tree root has already been set"

\* the value of a history variable that has recorded nothing
NoValue == [state |-> "None", v |-> 0]

\* the longhands a property name stands for
Longhands(id) ==
    IF id = Marker THEN {MarkerStart, MarkerMid, MarkerEnd} ELSE {id}

MarkerLonghands == Longhands(Marker)

\* the kinds the operations of the model are called with
StoreKinds == {Marker, MarkerStart, MarkerMid, MarkerEnd}
CascadeKinds == {FontSize, BaselineShift, Opacity, StrokeWidth}
QueryKinds == {Display, Visibility, Overflow}
ReservedKinds == {XmlLang, XmlSpace}
TrackedKinds == StoreKinds \cup CascadeKinds \cup QueryKinds \cup ReservedKinds

VARIABLES
    indices,          \* SpecifiedValues::indices, [u8; UnsetProperty]
    props,            \* SpecifiedValues::props, Vec<ParsedProperty>
    panic,            \* the panic the program ended in, or NoPanic
    important_styles, \* the HashSet<QualName> of one merge pass
    computed,         \* the ComputedValues the cascade writes
    parent,           \* history: the ComputedValues the last cascade was seeded with
    first_set,        \* history: per identity, the value of the first set_property call
    last_replace,     \* history: per identity, the value of the last set_property call with replace
    ua_important,     \* history: the last !important user-agent declaration, until its property is set again
    result,           \* the Result the last call of the attribute adapter returned
    last_parse,       \* history: the attribute of the last parse_one_presentation_attribute and how its parse ended
    answer,           \* the bool the last query helper returned, and which helper
    tree,             \* XmlState::tree, Option<Box<Tree>>: <<>> or the root node in a tuple
    current_node,     \* XmlState::current_node, Option<Rc<Node>>: <<>> or a node in a tuple
    element_name_stack, \* XmlState::element_name_stack, Vec<String>
    nodes,            \* the nodes created so far: parent, name, type, children, text and style parses of each
    chars_run,        \* history: the chars children created since the last element event
    path_segments,    \* RsvgPathBuilder::path_segments, Vec<cairo::PathSegment>
    last_move_to_index, \* RsvgPathBuilder::last_move_to_index, Option<usize>: <<>> or an index in a tuple
    nOps              \* number of operations performed

storeVars == <<indices, props, panic, first_set, last_replace>>
cascadeVars == <<computed, parent>>
adapterVars == <<result, last_parse>>
xmlVars == <<tree, current_node, element_name_stack, nodes, chars_run>>
pathVars == <<path_segments, last_move_to_index>>
vars ==
    <<indices, props, panic, important_styles, computed, parent,
      first_set, last_replace, ua_important, result, last_parse, answer,
      tree, current_node, element_name_stack, nodes, chars_run,
      path_segments, last_move_to_index, nOps>>

\* the store (and the history of the calls on it) as one value
Store ==
    [indices |-> indices, props |-> props, panic |-> panic,
     first_set |-> first_set, last_replace |-> last_replace]

StoreBecomes(st) ==
    /\ indices' = st.indices
    /\ props' = st.props
    /\ panic' = st.panic
    /\ first_set' = st.first_set
    /\ last_replace' = st.last_replace

(***************************************************************************)
(* impl Default for SpecifiedValues                                        *)
(***************************************************************************)
SpecifiedValuesDefault ==
    [indices |-> [id \in PropertyIds |-> UnsetProperty],
     props |-> <<>>,
     panic |-> NoPanic,
     first_set |-> [id \in TrackedKinds |-> NoValue],
     last_replace |-> [id \in TrackedKinds |-> NoValue]]

(***************************************************************************)
(* impl SpecifiedValues: the store                                         *)
(***************************************************************************)
\* Option<usize> as a sequence: <<>> is None, <<i>> is Some(i)
property_index(st, id) ==
    LET v == st.indices[id]
    IN  IF v = UnsetProperty THEN <<>> ELSE <<v>>

\* the history of the set_property calls
RecordCall(st, prop, replace) ==
    IF prop.id \notin TrackedKinds THEN st
    ELSE [st EXCEPT
            !.first_set[prop.id] = IF @ = NoValue THEN prop.sv ELSE @,
            !.last_replace[prop.id] = IF replace THEN prop.sv ELSE @]

\* a slip: the position of the pushed slot taken after the push as the length
pos_is_len(pushed) == Len(pushed)

\* let pos = self.props.len() - 1, after the push
pos_after_push(pushed) == Len(pushed) - 1

\* a slip: the slot of a present identity overwritten whatever the flag
overwrite_always(st, index, prop, replace) ==
    IF index + 1 \in DOMAIN st.props
    THEN [st EXCEPT !.props[index + 1] = prop]
    ELSE [st EXCEPT !.panic = BoundsPanic]

\* a slip: the slot of a present identity never overwritten
overwrite_never(st, index, prop, replace) == st

\* a slip: the first slot overwritten, whatever the index found
overwrite_first_slot(st, index, prop, replace) ==
    IF replace
    THEN IF 1 \in DOMAIN st.props
         THEN [st EXCEPT !.props[1] = prop]
         ELSE [st EXCEPT !.panic = BoundsPanic]
    ELSE st

\* a slip: a present identity given a new slot at the end
overwrite_by_push(st, index, prop, replace) ==
    IF replace
    THEN [st EXCEPT !.props = Append(st.props, prop),
                    !.indices[prop.id] = Len(st.props) % U8]
    ELSE st

\* if replace { self.props[index] = prop.clone(); }
overwrite_slot(st, index, prop, replace) ==
    IF replace
    THEN IF index + 1 \in DOMAIN st.props
         THEN [st EXCEPT !.props[index + 1] = prop]
         ELSE [st EXCEPT !.panic = BoundsPanic]
    ELSE st

set_property(st, prop, replace) ==
    LET id == get_property_id(prop)
    IN  IF st.panic # NoPanic THEN st
        ELSE IF id = Marker THEN [st EXCEPT !.panic = ShorthandPanic]
        ELSE LET rec == RecordCall(st, prop, replace)
             IN  IF property_index(st, id) # <<>>
                 THEN LET index == property_index(st, id)[1]
                      IN  overwrite_slot(rec, index, prop, replace)
                 ELSE LET pushed == Append(st.props, prop)
                          pos == pos_after_push(pushed)
                      IN  [rec EXCEPT !.props = pushed,
                                      !.indices[id] = pos % U8]

\* a slip: the expansion of the shorthand in the order start, end, mid
expanding_out_of_order(st, prop, replace) ==
    IF prop.id = Marker /\ prop.sv.state = "Specified"
    THEN LET v == prop.sv.v
             s1 == set_property(st, ParsedProperty(MarkerStart, Specified(v)), replace)
             s2 == set_property(s1, ParsedProperty(MarkerEnd, Specified(v)), replace)
         IN  set_property(s2, ParsedProperty(MarkerMid, Specified(v)), replace)
    ELSE set_property(st, prop, replace)

set_property_expanding_shorthands(st, prop, replace) ==
    IF prop.id = Marker /\ prop.sv.state = "Specified"
    THEN LET v == prop.sv.v
             s1 == set_property(st, ParsedProperty(MarkerStart, Specified(v)), replace)
             s2 == set_property(s1, ParsedProperty(MarkerMid, Specified(v)), replace)
         IN  set_property(s2, ParsedProperty(MarkerEnd, Specified(v)), replace)
    ELSE set_property(st, prop, replace)

set_parsed_property(st, prop) ==
    set_property_expanding_shorthands(st, prop, TRUE)

set_parsed_property_user_agent(st, prop) ==
    set_property_expanding_shorthands(st, prop, FALSE)

\* the specified value stored for an identity, NoValue when it has no slot
Stored(st, id) ==
    IF st.indices[id] = UnsetProperty \/ st.indices[id] + 1 \notin DOMAIN st.props
    THEN NoValue
    ELSE st.props[st.indices[id] + 1].sv

StoredNow(id) == Stored(Store, id)

(***************************************************************************)
(* struct ComputedValues and the cascade                                   *)
(***************************************************************************)
\* one field per property kind; the shorthand has no field
Fields == PropertyIds \ {Marker}

\* the Default of every property type
DefaultValue(id) == 0

ComputedValuesDefault == [id \in Fields |-> DefaultValue(id)]

\* Property::inherits_automatically, set per type in property_defs.rs;
\* this file states it for Opacity only (the assertion of the last test)
NonInheritingKinds == {BaselineShift, Display, Opacity, Overflow}
inherits_automatically(id) == id \notin NonInheritingKinds

\* Property::compute, the finalization of a resolved value, set per type in
\* property_defs.rs: a font-relative value of a kind computed from the font
\* size becomes the font size found in the values computed so far; any other
\* value is kept
FontDependentKinds == {FontSize, BaselineShift}
property_compute(id, value, src_values) ==
    IF id \in FontDependentKinds /\ value = FontRelative
    THEN src_values[FontSize]
    ELSE value

\* a slip: an unspecified value resolved to the parent's for every kind
compute_always_inherits(self, id, src, src_values) ==
    LET value == IF self.state = "Specified" THEN self.v ELSE src
    IN  property_compute(id, value, src_values)

\* a slip: an explicit inherit resolved as an unspecified value is
compute_inherit_by_flag(self, id, src, src_values) ==
    LET value ==
            CASE self.state = "Specified" -> self.v
              [] OTHER -> IF inherits_automatically(id) THEN src ELSE DefaultValue(id)
    IN  property_compute(id, value, src_values)

\* a slip: a specified value of an inherited kind resolved to the parent's
compute_specified_by_flag(self, id, src, src_values) ==
    LET value ==
            CASE self.state = "Unspecified" ->
                    IF inherits_automatically(id) THEN src ELSE DefaultValue(id)
              [] self.state = "Inherit" -> src
              [] OTHER -> IF inherits_automatically(id) THEN src ELSE self.v
    IN  property_compute(id, value, src_values)

\* a slip: an unspecified value resolved to the type default for every kind
compute_never_inherits(self, id, src, src_values) ==
    LET value ==
            CASE self.state = "Unspecified" -> DefaultValue(id)
              [] self.state = "Inherit" -> src
              [] OTHER -> self.v
    IN  property_compute(id, value, src_values)

\* SpecifiedValue::compute
compute(self, id, src, src_values) ==
    LET value ==
            CASE self.state = "Unspecified" ->
                    IF inherits_automatically(id) THEN src ELSE DefaultValue(id)
              [] self.state = "Inherit" -> src
              [] OTHER -> self.v
    IN  property_compute(id, value, src_values)

\* a slip: the index 0 taken for an identity that is not set
compute_macro_unless_first(st, c, id) ==
    IF c.panic # NoPanic THEN c
    ELSE IF property_index(st, id) # <<>> /\ property_index(st, id)[1] # 0
    THEN LET index == property_index(st, id)[1]
         IN  IF index + 1 \notin DOMAIN st.props
             THEN [c EXCEPT !.panic = BoundsPanic]
             ELSE IF st.props[index + 1].id = id
             THEN [c EXCEPT !.values[id] =
                      compute(st.props[index + 1].sv, id, c.values[id], c.values)]
             ELSE [c EXCEPT !.panic = UnreachablePanic]
    ELSE [c EXCEPT !.values[id] = compute(Unspecified, id, c.values[id], c.values)]

\* the compute! macro of to_computed_values, for one kind; c holds the
\* ComputedValues and the panic the pass ended in
compute_macro(st, c, id) ==
    IF c.panic # NoPanic THEN c
    ELSE IF property_index(st, id) # <<>>
    THEN LET index == property_index(st, id)[1]
         IN  IF index + 1 \notin DOMAIN st.props
             THEN [c EXCEPT !.panic = BoundsPanic]
             ELSE IF st.props[index + 1].id = id
             THEN [c EXCEPT !.values[id] =
                      compute(st.props[index + 1].sv, id, c.values[id], c.values)]
             ELSE [c EXCEPT !.panic = UnreachablePanic]
    ELSE [c EXCEPT !.values[id] = compute(Unspecified, id, c.values[id], c.values)]

\* a slip: every field in the order of the enum, font_size among them
ComputeOrderOfEnum ==
    LET Field(id) == id # Marker
    IN  SelectSeq([i \in 1 .. UnsetProperty |-> i - 1], Field)

\* the order of the compute! lines: font_size first, then the other fields
\* in the order of the enum
ComputeOrder ==
    LET Other(id) == id # FontSize /\ id # Marker
    IN  <<FontSize>> \o SelectSeq([i \in 1 .. UnsetProperty |-> i - 1], Other)

RECURSIVE compute_from(_, _, _)
compute_from(st, c, i) ==
    IF i > Len(ComputeOrder)
    THEN c
    ELSE LET next == compute_macro(st, c, ComputeOrder[i])
         IN  IF next.panic # NoPanic THEN next ELSE compute_from(st, next, i + 1)

to_computed_values(st, seed) ==
    compute_from(st, [values |-> seed, panic |-> NoPanic], 1)

(***************************************************************************)
(* The query helpers.                                                      *)
(***************************************************************************)
\* the variants the helpers name, and one for every variant they do not
DisplayNone == 1
VisibilityVisible == 0
OverflowVisible == 0
OverflowAuto == 1
OtherVariant == 2

Variants(id) ==
    CASE id = Display -> {DisplayNone, OtherVariant}
      [] id = Visibility -> {VisibilityVisible, OtherVariant}
      [] OTHER -> {OverflowVisible, OverflowAuto, OtherVariant}

\* a slip: the variant Visible left out of the match
is_overflow_auto_only(c) ==
    IF c[Overflow] = OverflowAuto THEN TRUE ELSE FALSE

\* ComputedValues::is_overflow
is_overflow(c) ==
    IF c[Overflow] = OverflowAuto \/ c[Overflow] = OverflowVisible THEN TRUE ELSE FALSE

\* a slip: the visibility alone decides
is_visible_by_visibility(c) ==
    IF c[Visibility] = VisibilityVisible THEN TRUE ELSE FALSE

\* ComputedValues::is_visible
is_visible(c) ==
    IF c[Display] = DisplayNone THEN FALSE
    ELSE IF c[Visibility] = VisibilityVisible THEN TRUE
    ELSE FALSE

\* a slip: true for every state of a stored overflow
specified_is_overflow_when_stored(st) ==
    [value |-> property_index(st, Overflow) # <<>>, panic |-> st.panic]

\* SpecifiedValues::is_overflow: the bool returned and the panic it ended in
specified_is_overflow(st) ==
    IF property_index(st, Overflow) # <<>>
    THEN LET overflow_index == property_index(st, Overflow)[1]
         IN  IF overflow_index + 1 \notin DOMAIN st.props
             THEN [value |-> FALSE, panic |-> BoundsPanic]
             ELSE IF st.props[overflow_index + 1].id # Overflow
             THEN [value |-> FALSE, panic |-> UnreachablePanic]
             ELSE IF st.props[overflow_index + 1].sv = Specified(OverflowAuto)
             THEN [value |-> TRUE, panic |-> st.panic]
             ELSE IF st.props[overflow_index + 1].sv = Specified(OverflowVisible)
             THEN [value |-> TRUE, panic |-> st.panic]
             ELSE [value |-> FALSE, panic |-> st.panic]
    ELSE [value |-> FALSE, panic |-> st.panic]

(***************************************************************************)
(* crate::css::Origin and crate::css::Declaration                          *)
(***************************************************************************)
UserAgent == "UserAgent"
Author == "Author"
Origin == {UserAgent, Author}

\* a declaration as DeclParser builds it: the property parsed under the
\* declaration's own name
Declaration(prop, important) ==
    [prop_name |-> prop.id, property |-> prop, important |-> important]

NoDeclaration == [name |-> UnsetProperty, sv |-> NoValue,
                  prev |-> [id \in MarkerLonghands |-> NoValue],
                  followed |-> FALSE]

\* the values stored for the longhands of a name, as three entries: a
\* longhand fills its own entry only
StoredFor(st, name) ==
    [id \in MarkerLonghands |->
        IF id \in Longhands(name) THEN Stored(st, id) ELSE NoValue]

\* the history of the !important user-agent declarations: an operation on a
\* property of the recorded declaration ends the record
AfterCall(id) ==
    IF ua_important # NoDeclaration
       /\ Longhands(id) \cap Longhands(ua_important.name) # {}
    THEN NoDeclaration
    ELSE ua_important

\* a declaration starts the record when it is an !important one of the user
\* agent, and marks it followed when it is a non-important one of the author
\* for the recorded name
AfterDeclaration(declaration, origin) ==
    IF declaration.important /\ origin = UserAgent
    THEN [name |-> declaration.prop_name,
          sv |-> declaration.property.sv,
          prev |-> StoredFor(Store, declaration.prop_name),
          followed |-> FALSE]
    ELSE IF /\ ~declaration.important
            /\ origin = Author
            /\ declaration.prop_name = ua_important.name
    THEN [ua_important EXCEPT !.followed = TRUE]
    ELSE AfterCall(declaration.prop_name)

(***************************************************************************)
(* set_property_from_declaration, in its three steps                       *)
(***************************************************************************)
\* a slip: only the declarations of the user agent are dropped
dropped_for_user_agent_only(declaration, origin, styles) ==
    /\ origin = UserAgent
    /\ ~declaration.important
    /\ declaration.prop_name \in styles

\* if !declaration.important && important_styles.contains(&declaration.prop_name)
is_dropped(declaration, origin, styles) ==
    ~declaration.important /\ declaration.prop_name \in styles

\* a slip: only the important declarations of the author are recorded
recorded_for_author_only(declaration, origin, st, styles) ==
    IF declaration.important /\ origin = Author
    THEN styles \cup {declaration.prop_name}
    ELSE styles

\* a slip: the origins taken for each other
apply_origins_swapped(st, declaration, origin) ==
    IF origin = Author
    THEN set_parsed_property_user_agent(st, declaration.property)
    ELSE set_parsed_property(st, declaration.property)

\* a slip: an important declaration never replaces, whatever its origin
apply_important_without_replace(st, declaration, origin) ==
    IF origin = UserAgent \/ declaration.important
    THEN set_parsed_property_user_agent(st, declaration.property)
    ELSE set_parsed_property(st, declaration.property)

\* if origin == Origin::UserAgent { ... } else { ... }
apply_declaration(st, declaration, origin) ==
    IF origin = UserAgent
    THEN set_parsed_property_user_agent(st, declaration.property)
    ELSE set_parsed_property(st, declaration.property)

\* a slip: an important declaration recorded only when it changes the store
recorded_when_stored(declaration, origin, st, styles) ==
    IF /\ declaration.important
       /\ apply_declaration(st, declaration, origin).props # st.props
    THEN styles \cup {declaration.prop_name}
    ELSE styles

\* if declaration.important { important_styles.insert(...) }
record_important(declaration, origin, st, styles) ==
    IF declaration.important
    THEN styles \cup {declaration.prop_name}
    ELSE styles

(***************************************************************************)
(* parse_input, parse_property and the presentation-attribute adapter      *)
(***************************************************************************)
\* the text of a value, by what the parser makes of it: the identifier
\* inherit, a well-formed value, or a text that ends the parse in an error
InheritText == [token |-> "inherit", v |-> 0]
ValueText(v) == [token |-> "value", v |-> v]
MalformedText(kind) == [token |-> kind, v |-> 0]

\* ValueErrorKind::UnknownProperty, and the other kinds of ParseErrorKind
\* that parse_one_presentation_attribute tells apart
UnknownProperty == "UnknownProperty"
ErrorKinds == {"UnexpectedToken", "EndOfInput", "Basic", "Custom"}

\* Result<(), ElementError>
Ok == "Ok"
Err == "Err"
NoResult == "none"

\* a name the catalogue does not have
UnknownName == UnsetProperty + 1

\* the names parse_property has an arm for
Catalogue == PropertyIds \ ReservedKinds

ParseOk(prop) == [ok |-> TRUE, prop |-> prop, kind |-> Ok]
ParseErr(kind) == [ok |-> FALSE, prop |-> ParsedProperty(UnsetProperty, NoValue), kind |-> kind]

\* Parse::parse and ParseValue::parse of a property type: the value of a
\* well-formed text, an error for any other
parse(input) ==
    IF input.token = "value"
    THEN [ok |-> TRUE, v |-> input.v, kind |-> Ok]
    ELSE [ok |-> FALSE, v |-> 0,
          kind |-> IF input.token \in ErrorKinds THEN input.token ELSE "UnexpectedToken"]

parse_input(input) ==
    IF input.token = "inherit"
    THEN [ok |-> TRUE, sv |-> Inherit, kind |-> Ok]
    ELSE LET p == parse(input)
         IN  IF p.ok
             THEN [ok |-> TRUE, sv |-> Specified(p.v), kind |-> Ok]
             ELSE [ok |-> FALSE, sv |-> NoValue, kind |-> p.kind]

\* a slip: the shorthand parsed whatever accept_shorthands is
parse_property_accepting_shorthands(prop_name, input, accept_shorthands) ==
    IF prop_name \in Catalogue
    THEN LET r == parse_input(input)
         IN  IF r.ok THEN ParseOk(ParsedProperty(prop_name, r.sv)) ELSE ParseErr(r.kind)
    ELSE ParseErr(UnknownProperty)

parse_property(prop_name, input, accept_shorthands) ==
    IF prop_name = Marker /\ ~accept_shorthands
    THEN ParseErr(UnknownProperty)
    ELSE IF prop_name \in Catalogue
    THEN LET r == parse_input(input)
         IN  IF r.ok THEN ParseOk(ParsedProperty(prop_name, r.sv)) ELSE ParseErr(r.kind)
    ELSE ParseErr(UnknownProperty)

\* a slip: a malformed value of a recognized property clears what was stored
parse_one_clearing_on_error(st, attr, value) ==
    LET r == parse_property(attr, value, FALSE)
    IN  IF r.ok
        THEN [st |-> set_parsed_property(st, r.prop), result |-> Ok]
        ELSE IF r.kind = UnknownProperty
        THEN [st |-> st, result |-> Ok]
        ELSE [st |-> set_parsed_property(st, ParsedProperty(attr, Unspecified)),
              result |-> Ok]

\* every arm of the match ends in Ok(()); only the Ok arm touches the store
parse_one_presentation_attribute(st, attr, value) ==
    LET r == parse_property(attr, value, FALSE)
    IN  IF r.ok
        THEN [st |-> set_parsed_property(st, r.prop), result |-> Ok]
        ELSE [st |-> st, result |-> Ok]

\* one turn of the loop of parse_presentation_attributes: the reserved
\* attributes are parsed directly and an error of their parser is returned
\* by the ? operator
parse_attribute(st, attr, value) ==
    IF attr \in ReservedKinds
    THEN LET p == parse(value)
         IN  IF p.ok
             THEN [st |-> set_parsed_property(st, ParsedProperty(attr, Specified(p.v))),
                   result |-> Ok]
             ELSE [st |-> st, result |-> Err]
    ELSE parse_one_presentation_attribute(st, attr, value)

RECURSIVE parse_attributes_from(_, _, _)
parse_attributes_from(st, pbag, i) ==
    IF i > Len(pbag) \/ st.panic # NoPanic
    THEN [st |-> st, result |-> Ok]
    ELSE LET turn == parse_attribute(st, pbag[i].attr, pbag[i].value)
         IN  IF turn.result = Err
             THEN turn
             ELSE parse_attributes_from(turn.st, pbag, i + 1)

parse_presentation_attributes(st, pbag) == parse_attributes_from(st, pbag, 1)

(***************************************************************************)
(* parse_style_declarations                                                *)
(***************************************************************************)
\* set_property_from_declaration on a store and an important-styles set
set_property_from_declaration(st, styles, declaration, origin) ==
    IF is_dropped(declaration, origin, styles)
    THEN [st |-> st, styles |-> styles]
    ELSE [st |-> apply_declaration(st, declaration, origin),
          styles |-> record_important(declaration, origin, st, styles)]

\* what DeclarationListParser yields for one declaration of the text:
\* Ok(decl), or Err for a declaration that fails to parse
OkDeclaration(declaration) == [ok |-> TRUE, decl |-> declaration]
ErrDeclaration == [ok |-> FALSE, decl |-> Declaration(ParsedProperty(UnsetProperty, NoValue), FALSE)]

\* .filter_map(|r| match r { Ok(decl) => Some(decl), Err(e) => None })
filter_map(items) ==
    LET IsOk(r) == r.ok
        kept == SelectSeq(items, IsOk)
    IN  [i \in 1 .. Len(kept) |-> kept[i].decl]

\* .for_each(|decl| self.set_property_from_declaration(...)): a panic of
\* one call ends the iteration
RECURSIVE for_each(_, _, _, _)
for_each(r, decls, origin, i) ==
    IF i > Len(decls) \/ r.st.panic # NoPanic
    THEN r
    ELSE for_each(set_property_from_declaration(r.st, r.styles, decls[i], origin),
                  decls, origin, i + 1)

\* the store, the set and the Result returned; nothing is returned by a
\* call that ends in a panic
parse_style_declarations(st, styles, items, origin) ==
    LET r == for_each([st |-> st, styles |-> styles], filter_map(items), origin, 1)
    IN  [st |-> r.st, styles |-> r.styles,
         result |-> IF r.st.panic = NoPanic THEN Ok ELSE NoResult]

(***************************************************************************)
(* struct XmlState of xml.rs                                               *)
(***************************************************************************)
\* the XmlState, the nodes it has created and the panic a call ended in,
\* as one value
Xml ==
    [tree |-> tree, current_node |-> current_node,
     element_name_stack |-> element_name_stack, nodes |-> nodes,
     chars_run |-> chars_run, panic |-> panic]

\* XmlState::new
XmlStateNew ==
    [tree |-> <<>>, current_node |-> <<>>, element_name_stack |-> <<>>,
     nodes |-> <<>>, chars_run |-> 0, panic |-> NoPanic]

\* NodeType, as far as this file tells the types apart: Svg, Chars, the
\* types that accept character data and the others
NodeSvg == "Svg"
NodeChars == "Chars"
NodeText == "Text"
NodeOther == "Other"

\* the type of the node rsvg_load_new_node creates: Svg for the element it
\* reports through is_svg, a type that accepts characters for a text element
TypeOf(name, is_svg) ==
    IF is_svg THEN NodeSvg ELSE IF name = "text" THEN NodeText ELSE NodeOther

\* the node rsvg_load_new_node or node_new returns: its parent is the node
\* passed; styles_parsed counts the calls of parse_style_attributes on it
NewNode(xml, name, node_type) ==
    [parent |-> xml.current_node, name |-> name, type |-> node_type,
     children |-> <<>>, text |-> <<>>, styles_parsed |-> 0]

\* Node::get_parent
get_parent(xml, node) == xml.nodes[node].parent

\* Node::get_type
get_type(xml, node) == xml.nodes[node].type

\* Node::accept_chars
accept_chars(xml, node) == xml.nodes[node].type = NodeText

\* Node::add_child
add_child(xml, node, child) ==
    [xml EXCEPT !.nodes[node].children = Append(@, child)]

\* Node::parse_style_attributes and NodeSvg::parse_style_attributes
parse_style_attributes(xml, node) ==
    [xml EXCEPT !.nodes[node].styles_parsed = @ + 1]

\* NodeChars::append
chars_append(xml, node, text) ==
    [xml EXCEPT !.nodes[node].text = @ \o text]

\* Node::find_last_chars_child: the last child when it is a chars node;
\* when it is not, either no node or the last chars node among the
\* children (scan), as the search is written in one way or the other
find_last_chars_child(xml, node, scan) ==
    LET children == xml.nodes[node].children
        IsChars(child) == xml.nodes[child].type = NodeChars
        found == SelectSeq(children, IsChars)
    IN  IF children = <<>> THEN <<>>
        ELSE IF IsChars(children[Len(children)]) THEN <<children[Len(children)]>>
        ELSE IF scan /\ found # <<>> THEN <<found[Len(found)]>>
        ELSE <<>>

\* a slip: the tree replaced by the new root
set_root_replacing(xml, root) == [xml EXCEPT !.tree = <<root>>]

set_root(xml, root) ==
    IF xml.tree # <<>>
    THEN [xml EXCEPT !.panic = RootPanic]
    ELSE [xml EXCEPT !.tree = <<root>>]

set_current_node(xml, node) == [xml EXCEPT !.current_node = node]

push_element_name(xml, name) ==
    [xml EXCEPT !.element_name_stack = Append(@, name)]

\* a slip: free_element_name_stack taken for pop_element_name
pop_clears_stack(xml) == [xml EXCEPT !.element_name_stack = <<>>]

\* Vec::pop, which leaves an empty stack empty
pop_element_name(xml) ==
    [xml EXCEPT !.element_name_stack =
        IF @ = <<>> THEN <<>> ELSE SubSeq(@, 1, Len(@) - 1)]

topmost_element_name_is(xml, name) ==
    LET len == Len(xml.element_name_stack)
    IN  IF len > 0 THEN xml.element_name_stack[len] = name ELSE FALSE

\* is_svg is what rsvg_load_new_node writes through its last argument. A
\* panic of set_root unwinds out of the call: the name stays pushed, the
\* new node is dropped and the current node is not changed. The attributes
\* the new node is given are kept in the node.
standard_element_start(xml, name, is_svg) ==
    LET new_node == Len(xml.nodes) + 1
        created == [xml EXCEPT !.nodes = Append(@, NewNode(xml, name, TypeOf(name, is_svg))),
                               !.chars_run = 0]
        pushed == push_element_name(created, name)
        hooked == IF pushed.current_node # <<>>
                  THEN add_child(pushed, pushed.current_node[1], new_node)
                  ELSE IF is_svg THEN set_root(pushed, new_node)
                  ELSE pushed
    IN  IF hooked.panic # NoPanic
        THEN [hooked EXCEPT !.nodes = xml.nodes]
        ELSE LET current == set_current_node(hooked, <<new_node>>)
             IN  IF get_type(current, new_node) # NodeSvg
                 THEN parse_style_attributes(current, new_node)
                 ELSE current

standard_element_end(xml, name) ==
    IF xml.current_node # <<>>
    THEN LET current_node_ == xml.current_node[1]
             parsed == IF get_type(xml, current_node_) = NodeSvg
                       THEN parse_style_attributes(xml, current_node_)
                       ELSE xml
             ended == [parsed EXCEPT !.chars_run = 0]
         IN  IF topmost_element_name_is(ended, name)
             THEN LET node_parent == get_parent(ended, current_node_)
                  IN  pop_element_name(set_current_node(ended, node_parent))
             ELSE ended
    ELSE [xml EXCEPT !.chars_run = 0]

\* a slip: a chars child created by every call
add_characters_always_new(xml, text, scan) ==
    IF Len(text) = 0 THEN xml
    ELSE IF xml.current_node = <<>> THEN xml
    ELSE IF ~accept_chars(xml, xml.current_node[1]) THEN xml
    ELSE LET child == Len(xml.nodes) + 1
             created == [xml EXCEPT !.nodes = Append(@, NewNode(xml, "", NodeChars)),
                                    !.chars_run = @ + 1]
         IN  chars_append(add_child(created, xml.current_node[1], child), child, text)

add_characters(xml, text, scan) ==
    IF Len(text) = 0 THEN xml
    ELSE IF xml.current_node = <<>> THEN xml
    ELSE IF ~accept_chars(xml, xml.current_node[1]) THEN xml
    ELSE LET current_node_ == xml.current_node[1]
             last == find_last_chars_child(xml, current_node_, scan)
         IN  IF last # <<>>
             THEN chars_append(xml, last[1], text)
             ELSE LET child == Len(xml.nodes) + 1
                      created == [xml EXCEPT !.nodes = Append(@, NewNode(xml, "", NodeChars)),
                                             !.chars_run = @ + 1]
                  IN  chars_append(add_child(created, current_node_, child), child, text)

(***************************************************************************)
(* struct RsvgPathBuilder of path_builder.rs                               *)
(***************************************************************************)
\* the builder and the panic a call ended in, as one value
Builder ==
    [path_segments |-> path_segments, last_move_to_index |-> last_move_to_index,
     panic |-> panic]

\* rsvg_path_builder_new
PathBuilderNew == [path_segments |-> <<>>, last_move_to_index |-> <<>>, panic |-> NoPanic]

\* cairo::PathSegment
MoveTo(x, y) == [kind |-> "MoveTo", points |-> <<<<x, y>>>>]
LineTo(x, y) == [kind |-> "LineTo", points |-> <<<<x, y>>>>]
CurveTo(x2, y2, x3, y3, x4, y4) ==
    [kind |-> "CurveTo", points |-> <<<<x2, y2>>, <<x3, y3>>, <<x4, y4>>>>]

\* a slip: the index of the last move-to not recorded
move_to_unrecorded(b, x, y) ==
    [b EXCEPT !.path_segments = Append(@, MoveTo(x, y))]

\* an index of the Vec is one less than the position in the sequence
move_to(b, x, y) ==
    LET pushed == Append(b.path_segments, MoveTo(x, y))
    IN  [b EXCEPT !.path_segments = pushed,
                  !.last_move_to_index = <<Len(pushed) - 1>>]

line_to(b, x, y) ==
    [b EXCEPT !.path_segments = Append(@, LineTo(x, y))]

curve_to(b, x2, y2, x3, y3, x4, y4) ==
    [b EXCEPT !.path_segments = Append(@, CurveTo(x2, y2, x3, y3, x4, y4))]

\* a slip: the path closed with a move-to to the origin
close_path_to_origin(b) ==
    IF b.last_move_to_index # <<>> THEN move_to(b, 0, 0) ELSE b

close_path(b) ==
    IF b.last_move_to_index # <<>>
    THEN LET idx == b.last_move_to_index[1]
         IN  IF idx + 1 \notin DOMAIN b.path_segments
             THEN [b EXCEPT !.panic = BoundsPanic]
             ELSE LET segment == b.path_segments[idx + 1]
                  IN  IF segment.kind = "MoveTo"
                      THEN move_to(b, segment.points[1][1], segment.points[1][2])
                      ELSE [b EXCEPT !.panic = UnreachablePanic]
    ELSE b

(***************************************************************************)
(* The inputs of the operations.                                           *)
(***************************************************************************)
\* the coordinates of a path
Coords == 0 .. MaxCoord

\* the names of the elements of a document
ElementNames == {"svg", "g", "text"}

\* what rsvg_load_new_node reports through is_svg for an element name
IsSvgName(name) == name = "svg"

\* the elements of a text, and the character data passed: none, or one piece
CharsNames == {"g", "text"}
CharsTexts == {<<>>, <<"a">>}

\* parse_property with accept_shorthands = true, over the marker properties
ParsedProps == {ParsedProperty(id, sv) : id \in StoreKinds, sv \in ParsedValues}

\* the properties the store is called with: the parsed ones, and the
\* shorthand in the state no text gives
StoreProps == ParsedProps \cup {ParsedProperty(Marker, Unspecified)}

StoreDeclarations == {Declaration(p, i) : p \in ParsedProps, i \in BOOLEAN}
ImportantDeclarations == {d \in StoreDeclarations : d.important}
PlainDeclarations == {d \in StoreDeclarations : ~d.important}

CascadeProps ==
    {ParsedProperty(id, sv) : id \in CascadeKinds, sv \in SpecifiedValue}
    \cup {ParsedProperty(id, Specified(FontRelative)) : id \in FontDependentKinds}

\* the properties of a store whose kinds are computed from one another
OrderProps ==
    {ParsedProperty(FontSize, Specified(MaxVal)),
     ParsedProperty(FontSize, Inherit),
     ParsedProperty(BaselineShift, Specified(FontRelative)),
     ParsedProperty(BaselineShift, Inherit),
     ParsedProperty(StrokeWidth, Specified(MaxVal)),
     ParsedProperty(StrokeWidth, Inherit)}

\* the declarations of a style text: marker and marker-mid, inherit or a
\* value, important or not, and a declaration that fails to parse
StyleItems ==
    {OkDeclaration(Declaration(ParsedProperty(id, sv), important)) :
        id \in {Marker, MarkerMid}, sv \in {Inherit, Specified(MaxVal)},
        important \in BOOLEAN}
    \cup {ErrDeclaration}

RECURSIVE ListsOfLen(_)
ListsOfLen(n) ==
    IF n = 0 THEN {<<>>}
    ELSE {Append(l, item) : l \in ListsOfLen(n - 1), item \in StyleItems}

StyleLists == UNION {ListsOfLen(n) : n \in 1 .. MaxListLen}

\* the identities with no slot, and the values the filled store is given:
\* one of the parsed values for a marker longhand, one value for the others
Absent == {id \in Fields : indices[id] = UnsetProperty}
FillProps(id) ==
    IF id \in MarkerLonghands
    THEN {ParsedProperty(id, sv) : sv \in ParsedValues}
    ELSE {ParsedProperty(id, Specified(DefaultValue(id)))}

\* the properties the query helpers read, in the states a parsed text gives
\* and, for overflow, in the state of a property not present
QueryProps ==
    UNION {{ParsedProperty(id, Inherit)}
           \cup {ParsedProperty(id, Specified(v)) : v \in Variants(id)} :
           id \in QueryKinds}
    \cup {ParsedProperty(Overflow, Unspecified)}

\* the attributes parse_one_presentation_attribute is called with
Attribute(attr, value) == [attr |-> attr, value |-> value]
Texts ==
    {InheritText} \cup {ValueText(v) : v \in StoreValues}
    \cup {MalformedText(kind) : kind \in ErrorKinds}
AttrNames == {StrokeWidth, MarkerStart, Marker, XmlLang, XmlSpace, UnknownName}
Attributes == {Attribute(attr, value) : attr \in AttrNames, value \in Texts}

\* the attribute bags: a property and the two reserved attributes, each
\* with a well-formed and a malformed value
BagTexts == {ValueText(MaxVal), MalformedText("UnexpectedToken")}
BagAttributes ==
    {Attribute(attr, value) : attr \in {StrokeWidth} \cup ReservedKinds, value \in BagTexts}
RECURSIVE BagsOfLen(_)
BagsOfLen(n) ==
    IF n = 0 THEN {<<>>}
    ELSE {Append(pbag, a) : pbag \in BagsOfLen(n - 1), a \in BagAttributes}
Bags == UNION {BagsOfLen(n) : n \in 1 .. MaxBagLen}

\* the ComputedValues of a parent: a font size and one value for the others
Seeds == {[id \in Fields |-> IF id = FontSize THEN fs ELSE o] :
             fs \in Values, o \in Values}

(***************************************************************************)
(* The operations.                                                         *)
(***************************************************************************)
\* no attribute parsed yet, no query answered yet
NoParse == [attr |-> UnsetProperty, token |-> "none", kind |-> NoResult]
NoAnswer == [query |-> "none", value |-> FALSE]

Init ==
    /\ indices = SpecifiedValuesDefault.indices
    /\ props = SpecifiedValuesDefault.props
    /\ panic = SpecifiedValuesDefault.panic
    /\ first_set = SpecifiedValuesDefault.first_set
    /\ last_replace = SpecifiedValuesDefault.last_replace
    /\ important_styles = {}
    /\ computed = ComputedValuesDefault
    /\ parent = ComputedValuesDefault
    /\ ua_important = NoDeclaration
    /\ result = NoResult
    /\ last_parse = NoParse
    /\ answer = NoAnswer
    /\ tree = XmlStateNew.tree
    /\ current_node = XmlStateNew.current_node
    /\ element_name_stack = XmlStateNew.element_name_stack
    /\ nodes = XmlStateNew.nodes
    /\ chars_run = XmlStateNew.chars_run
    /\ path_segments = PathBuilderNew.path_segments
    /\ last_move_to_index = PathBuilderNew.last_move_to_index
    /\ nOps = 0

\* a call is made on a live program
CanCall == panic = NoPanic

SetParsedProperty(prop) ==
    /\ CanCall
    /\ StoreBecomes(set_parsed_property(Store, prop))
    /\ ua_important' = AfterCall(prop.id)
    /\ nOps' = nOps + 1
    /\ UNCHANGED <<xmlVars, pathVars>>
    /\ UNCHANGED <<important_styles, cascadeVars, adapterVars, answer>>

SetParsedPropertyUserAgent(prop) ==
    /\ CanCall
    /\ StoreBecomes(set_parsed_property_user_agent(Store, prop))
    /\ ua_important' = AfterCall(prop.id)
    /\ nOps' = nOps + 1
    /\ UNCHANGED <<xmlVars, pathVars>>
    /\ UNCHANGED <<important_styles, cascadeVars, adapterVars, answer>>

SetPropertyFromDeclaration(declaration, origin) ==
    /\ CanCall
    /\ nOps' = nOps + 1
    /\ UNCHANGED <<xmlVars, pathVars>>
    /\ UNCHANGED <<cascadeVars, adapterVars, answer>>
    /\ IF is_dropped(declaration, origin, important_styles)
       THEN UNCHANGED <<storeVars, important_styles>>
       ELSE /\ important_styles' =
                  record_important(declaration, origin, Store, important_styles)
            /\ StoreBecomes(apply_declaration(Store, declaration, origin))
    /\ ua_important' = AfterDeclaration(declaration, origin)

\* a slip: the cascade takes the slots out of the store it reads
ToComputedValuesDraining(seed) ==
    /\ CanCall
    /\ parent' = seed
    /\ nOps' = nOps + 1
    /\ UNCHANGED <<xmlVars, pathVars>>
    /\ UNCHANGED <<first_set, last_replace, important_styles,
                   ua_important, adapterVars, answer>>
    /\ \E c \in {to_computed_values(Store, seed)} :
          /\ computed' = c.values
          /\ panic' = c.panic
    /\ indices' = SpecifiedValuesDefault.indices
    /\ props' = SpecifiedValuesDefault.props

ToComputedValues(seed) ==
    /\ CanCall
    /\ parent' = seed
    /\ nOps' = nOps + 1
    /\ UNCHANGED <<xmlVars, pathVars>>
    /\ UNCHANGED <<indices, props, first_set, last_replace, important_styles,
                   ua_important, adapterVars, answer>>
    /\ \E c \in {to_computed_values(Store, seed)} :
          /\ computed' = c.values
          /\ panic' = c.panic

ParseOnePresentationAttribute(attr, value) ==
    /\ CanCall
    /\ nOps' = nOps + 1
    /\ UNCHANGED <<xmlVars, pathVars>>
    /\ UNCHANGED <<important_styles, cascadeVars, ua_important, answer>>
    /\ last_parse' = [attr |-> attr, token |-> value.token,
                      kind |-> parse_property(attr, value, FALSE).kind]
    /\ \E r \in {parse_one_presentation_attribute(Store, attr, value)} :
          /\ StoreBecomes(r.st)
          /\ result' = r.result

IsVisible ==
    /\ CanCall
    /\ nOps' = nOps + 1
    /\ UNCHANGED <<xmlVars, pathVars>>
    /\ UNCHANGED <<storeVars, important_styles, cascadeVars, ua_important, adapterVars>>
    /\ answer' = [query |-> "is_visible", value |-> is_visible(computed)]

IsOverflow ==
    /\ CanCall
    /\ nOps' = nOps + 1
    /\ UNCHANGED <<xmlVars, pathVars>>
    /\ UNCHANGED <<storeVars, important_styles, cascadeVars, ua_important, adapterVars>>
    /\ answer' = [query |-> "is_overflow", value |-> is_overflow(computed)]

SpecifiedIsOverflow ==
    /\ CanCall
    /\ nOps' = nOps + 1
    /\ UNCHANGED <<xmlVars, pathVars>>
    /\ UNCHANGED <<indices, props, first_set, last_replace, important_styles,
                   cascadeVars, ua_important, adapterVars>>
    /\ \E r \in {specified_is_overflow(Store)} :
          /\ answer' = [query |-> "specified_is_overflow", value |-> r.value]
          /\ panic' = r.panic

ParsePresentationAttributes(pbag) ==
    /\ CanCall
    /\ nOps' = nOps + 1
    /\ UNCHANGED <<xmlVars, pathVars>>
    /\ UNCHANGED <<important_styles, cascadeVars, ua_important, last_parse, answer>>
    /\ \E r \in {parse_presentation_attributes(Store, pbag)} :
          /\ StoreBecomes(r.st)
          /\ result' = r.result

ParseStyleDeclarations(items, origin) ==
    /\ CanCall
    /\ nOps' = nOps + 1
    /\ UNCHANGED <<xmlVars, pathVars>>
    /\ UNCHANGED <<cascadeVars, last_parse, answer>>
    /\ ua_important' = NoDeclaration
    /\ \E r \in {parse_style_declarations(Store, important_styles, items, origin)} :
          /\ StoreBecomes(r.st)
          /\ important_styles' = r.styles
          /\ result' = r.result

XmlBecomes(xml) ==
    /\ tree' = xml.tree
    /\ current_node' = xml.current_node
    /\ element_name_stack' = xml.element_name_stack
    /\ nodes' = xml.nodes
    /\ chars_run' = xml.chars_run
    /\ panic' = xml.panic

StandardElementStart(name, is_svg) ==
    /\ CanCall
    /\ nOps' = nOps + 1
    /\ UNCHANGED <<indices, props, first_set, last_replace, important_styles,
                   cascadeVars, ua_important, adapterVars, answer, pathVars>>
    /\ XmlBecomes(standard_element_start(Xml, name, is_svg))

StandardElementEnd(name) ==
    /\ CanCall
    /\ nOps' = nOps + 1
    /\ UNCHANGED <<indices, props, first_set, last_replace, important_styles,
                   cascadeVars, ua_important, adapterVars, answer, pathVars>>
    /\ XmlBecomes(standard_element_end(Xml, name))

AddCharacters(text, scan) ==
    /\ CanCall
    /\ nOps' = nOps + 1
    /\ UNCHANGED <<indices, props, first_set, last_replace, important_styles,
                   cascadeVars, ua_important, adapterVars, answer, pathVars>>
    /\ XmlBecomes(add_characters(Xml, text, scan))

BuilderBecomes(b) ==
    /\ path_segments' = b.path_segments
    /\ last_move_to_index' = b.last_move_to_index
    /\ panic' = b.panic

PathFrame ==
    UNCHANGED <<indices, props, first_set, last_replace, important_styles,
                cascadeVars, ua_important, adapterVars, answer, xmlVars>>

PathMoveTo(x, y) ==
    /\ CanCall
    /\ nOps' = nOps + 1
    /\ PathFrame
    /\ BuilderBecomes(move_to(Builder, x, y))

PathLineTo(x, y) ==
    /\ CanCall
    /\ nOps' = nOps + 1
    /\ PathFrame
    /\ BuilderBecomes(line_to(Builder, x, y))

PathCurveTo(x2, y2, x3, y3, x4, y4) ==
    /\ CanCall
    /\ nOps' = nOps + 1
    /\ PathFrame
    /\ BuilderBecomes(curve_to(Builder, x2, y2, x3, y3, x4, y4))

PathClosePath ==
    /\ CanCall
    /\ nOps' = nOps + 1
    /\ PathFrame
    /\ BuilderBecomes(close_path(Builder))

\* the store and the declaration importer
Next ==
    /\ nOps < MaxOps
    /\ \/ \E prop \in StoreProps : SetParsedProperty(prop)
       \/ \E prop \in StoreProps : SetParsedPropertyUserAgent(prop)
       \/ \E declaration \in StoreDeclarations, origin \in Origin :
              SetPropertyFromDeclaration(declaration, origin)

Spec == Init /\ [][Next]_vars

\* the store of the marker properties and its cascade
NextMarker ==
    /\ nOps < MaxMarkerOps
    /\ \/ \E prop \in StoreProps : SetParsedProperty(prop)
       \/ \E prop \in StoreProps : SetParsedPropertyUserAgent(prop)
       \/ \E seed \in Seeds : ToComputedValues(seed)

SpecMarker == Init /\ [][NextMarker]_vars

\* one merge pass of the declaration importer
NextImport ==
    /\ nOps < MaxImportOps
    /\ \E declaration \in StoreDeclarations, origin \in Origin :
          SetPropertyFromDeclaration(declaration, origin)

SpecImport == Init /\ [][NextImport]_vars

\* the cascade of an element over the values of its parent
NextCascade ==
    /\ nOps < MaxCascadeOps
    /\ \/ \E prop \in CascadeProps : SetParsedProperty(prop)
       \/ \E seed \in Seeds : ToComputedValues(seed)

SpecCascade == Init /\ [][NextCascade]_vars

\* the element events of a document
NextXml ==
    /\ nOps < MaxXmlOps
    /\ \/ \E name \in ElementNames : StandardElementStart(name, IsSvgName(name))
       \/ \E name \in ElementNames : StandardElementEnd(name)

SpecXml == Init /\ [][NextXml]_vars

\* the character data of a text
NextChars ==
    /\ nOps < MaxCharsOps
    /\ \/ \E name \in CharsNames : StandardElementStart(name, IsSvgName(name))
       \/ \E name \in CharsNames : StandardElementEnd(name)
       \/ \E text \in CharsTexts, scan \in BOOLEAN : AddCharacters(text, scan)

SpecChars == Init /\ [][NextChars]_vars

\* the calls that build a path: a move-to to any point, a line and a curve
\* to the points of the diagonal
NextPath ==
    /\ nOps < MaxPathOps
    /\ \/ \E x \in Coords, y \in Coords : PathMoveTo(x, y)
       \/ \E c \in Coords : PathLineTo(c, c)
       \/ \E c \in Coords : PathCurveTo(c, c, c, c, c, c)
       \/ PathClosePath

SpecPath == Init /\ [][NextPath]_vars

\* the style texts of an element
NextStyle ==
    /\ nOps < MaxStyleOps
    /\ \E items \in StyleLists, origin \in Origin : ParseStyleDeclarations(items, origin)

SpecStyle == Init /\ [][NextStyle]_vars

\* stores filled in one order or another, and their cascade
NextOrder ==
    /\ nOps < MaxCascadeOps
    /\ \/ \E prop \in OrderProps : SetParsedProperty(prop)
       \/ \E seed \in Seeds : ToComputedValues(seed)

SpecOrder == Init /\ [][NextOrder]_vars

\* the presentation attributes of an element
NextAttrs ==
    /\ nOps < MaxAttrOps
    /\ \/ \E a \in Attributes : ParseOnePresentationAttribute(a.attr, a.value)
       \/ \E pbag \in Bags : ParsePresentationAttributes(pbag)

SpecAttrs == Init /\ [][NextAttrs]_vars

\* the query helpers on the store of an element and on its computed values
NextQuery ==
    /\ nOps < MaxQueryOps
    /\ \/ \E prop \in QueryProps : SetParsedProperty(prop)
       \/ \E seed \in Seeds : ToComputedValues(seed)
       \/ IsVisible
       \/ IsOverflow
       \/ SpecifiedIsOverflow

SpecQuery == Init /\ [][NextQuery]_vars

\* the bare store: calls with and without replace
NextStore ==
    /\ nOps < MaxStoreOps
    /\ \/ \E prop \in StoreProps : SetParsedProperty(prop)
       \/ \E prop \in StoreProps : SetParsedPropertyUserAgent(prop)

SpecStore == Init /\ [][NextStore]_vars

\* a short merge pass: a declaration and the one that follows it
NextShortPass ==
    /\ nOps < MaxStoreOps
    /\ \E declaration \in StoreDeclarations, origin \in Origin :
          SetPropertyFromDeclaration(declaration, origin)

SpecShortPass == Init /\ [][NextShortPass]_vars

\* an element that declares every property: the identities are stored in
\* the order of the enum, and a marker longhand is set again once all are
NextFill ==
    /\ nOps < MaxFillOps
    /\ \E id \in Fields :
          /\ IF Absent = {}
             THEN id \in MarkerLonghands
             ELSE id \in Absent /\ \A other \in Absent : id <= other
          /\ \E prop \in FillProps(id) : SetParsedProperty(prop)

SpecFill == Init /\ [][NextFill]_vars

(***************************************************************************)
(* Properties of the store.                                                *)
(***************************************************************************)
\* the store after the step
StoreNext ==
    [indices |-> indices', props |-> props', panic |-> panic',
     first_set |-> first_set', last_replace |-> last_replace']

\* C1: every identity occurs in props at most once, every set entry of
\* indices is the position of a slot of its own identity, every slot is
\* pointed to by exactly one entry of indices, and no call ended in the
\* unreachable!() of a read of the store.
C1_StoreConsistent ==
    /\ \A i, j \in DOMAIN props : props[i].id = props[j].id => i = j
    /\ \A id \in PropertyIds :
          indices[id] # UnsetProperty =>
             /\ indices[id] + 1 \in DOMAIN props
             /\ props[indices[id] + 1].id = id
    /\ \A i \in DOMAIN props :
          Cardinality({id \in PropertyIds : indices[id] = i - 1}) = 1
    /\ panic \notin {UnreachablePanic, BoundsPanic}

\* a store of three slots filled by the three operations
C1_Witness ==
    /\ Len(props) = 3
    /\ important_styles # {}
    /\ \E id \in MarkerLonghands : last_replace[id] = NoValue /\ first_set[id] # NoValue
    /\ \E id \in MarkerLonghands : last_replace[id] # NoValue

\* C2: set_parsed_property and set_parsed_property_user_agent never pass
\* the marker shorthand itself to set_property, in any of its three states:
\* no call ends in 'should have processed shorthands earlier'.
C2_ShorthandNeverStored == panic # ShorthandPanic

\* C3: the value stored for a non-shorthand identity is the value of the
\* last set_property call on it that had replace = true, or, when no call
\* had, the value of the first call; an identity never set has no slot.
C3_LastReplaceOrFirst ==
    \A id \in TrackedKinds \ {Marker} :
        StoredNow(id) =
            IF last_replace[id] # NoValue THEN last_replace[id] ELSE first_set[id]

\* an identity whose first value was replaced, and one never set with
\* replace that holds its first value
C3_Witness ==
    /\ \E id \in MarkerLonghands :
          /\ first_set[id] # NoValue
          /\ last_replace[id] \notin {NoValue, first_set[id]}
          /\ StoredNow(id) = last_replace[id]
    /\ \E id \in MarkerLonghands :
          /\ last_replace[id] = NoValue
          /\ StoredNow(id) = first_set[id]
          /\ first_set[id] = Inherit

\* the store properties the bare store is called with, shorthand excluded
Storable == {prop \in StoreProps : prop.id # Marker}

\* C21: set_property with replace on an identity that has a slot changes
\* the content of that slot only: the slot keeps its position, props its
\* length, and every other slot and every entry of indices is unchanged.
C21_ReplaceInPlace ==
    [][\A prop \in Storable :
          \/ StoredNow(prop.id) = NoValue
          \/ /\ indices' = indices
             /\ Len(props') = Len(props)
             /\ \A i \in DOMAIN props :
                   props'[i] = IF i = indices[prop.id] + 1 THEN prop ELSE props[i]
          \/ ~SetParsedProperty(prop)]_vars

\* the middle slot of three replaced by another value
C21_Witness ==
    /\ nOps = 2
    /\ Len(props) = 3
    /\ indices[MarkerMid] = 1
    /\ first_set[MarkerMid] # last_replace[MarkerMid]
    /\ StoredNow(MarkerMid) = last_replace[MarkerMid]
    /\ StoredNow(MarkerStart) = first_set[MarkerStart]
    /\ StoredNow(MarkerEnd) = first_set[MarkerEnd]

\* C22: set_property without replace on an identity that has a slot leaves
\* indices and props unchanged.
C22_NoReplaceKeepsStore ==
    [][\A prop \in Storable :
          \/ StoredNow(prop.id) = NoValue
          \/ UNCHANGED <<indices, props>>
          \/ ~SetParsedPropertyUserAgent(prop)]_vars

\* two calls without replace that left one slot, with the first value
C22_Witness ==
    /\ nOps = 2
    /\ panic = NoPanic
    /\ Len(props) = 1
    /\ \A id \in MarkerLonghands : last_replace[id] = NoValue
    /\ \E id \in MarkerLonghands : StoredNow(id) = first_set[id] /\ first_set[id] = Inherit

\* C23: set_property on an identity with no slot appends one slot at the
\* end and records the old length as its index, leaving the earlier slots
\* and the other entries of indices unchanged; in every step the length of
\* props does not decrease and an index once set does not change.
C23_AppendOnly ==
    [][/\ Len(props') >= Len(props)
       /\ \A id \in PropertyIds :
             indices[id] # UnsetProperty => indices'[id] = indices[id]
       /\ \A prop \in Storable, replace \in BOOLEAN :
             \/ StoredNow(prop.id) # NoValue
             \/ /\ props' = Append(props, prop)
                /\ indices' = [indices EXCEPT ![prop.id] = Len(props)]
             \/ ~(IF replace THEN SetParsedProperty(prop)
                             ELSE SetParsedPropertyUserAgent(prop))]_vars

\* a slot appended after another by a call on an identity that had none
C23_Witness ==
    /\ nOps = 2
    /\ Len(props) = 2
    /\ indices[MarkerEnd] = 0
    /\ indices[MarkerStart] = 1
    /\ StoredNow(MarkerStart) = Inherit

\* C24: an index written into indices is smaller than UnsetProperty: props
\* never holds more slots than there are storable identities, every slot
\* is found again through indices, and a recorded index is the position of
\* the slot, not its truncation.
C24_IndexBelowSentinel ==
    /\ Len(props) <= Cardinality(Fields)
    /\ \A id \in PropertyIds :
          indices[id] # UnsetProperty => indices[id] < UnsetProperty
    /\ \A i \in DOMAIN props : indices[props[i].id] = i - 1

\* every storable identity stored, and one of them set again
C24_Witness ==
    /\ Len(props) = Cardinality(Fields)
    /\ nOps = Cardinality(Fields) + 1
    /\ \A id \in Fields : indices[id] # UnsetProperty

(***************************************************************************)
(* Properties of the declaration importer.                                 *)
(***************************************************************************)
\* C4, as claimed: when a non-important author declaration follows an
\* !important user-agent declaration of the same property, the value stored
\* for the property is the value of the important declaration.
C4_ImportantValueStored ==
    ua_important.followed =>
        \A id \in Longhands(ua_important.name) :
            StoredNow(id) = ua_important.sv

\* C4, amended: when a non-important author declaration follows an
\* !important user-agent declaration of the same property, with no other
\* call on the property between them, the value stored is that of the
\* important declaration where the property had no slot when the important
\* declaration was imported, and the value stored before it otherwise.
C4_ImportantDeclarationStands ==
    ua_important.followed =>
        \A id \in Longhands(ua_important.name) :
            StoredNow(id) =
                IF ua_important.prev[id] = NoValue
                THEN ua_important.sv
                ELSE ua_important.prev[id]

\* an important user-agent declaration of a property that had a slot with
\* another value, followed by an author declaration
C4_Witness ==
    /\ ua_important.followed
    /\ \E id \in Longhands(ua_important.name) :
          /\ ua_important.prev[id] # NoValue
          /\ ua_important.prev[id] # ua_important.sv
    /\ \E id \in Longhands(ua_important.name) : ua_important.prev[id] = NoValue

\* C5: a non-important declaration whose property is in the
\* important-styles set leaves the store and the set unchanged, whatever
\* its origin.
C5_DroppedDeclarationChangesNothing ==
    [][\/ UNCHANGED <<indices, props, important_styles>>
       \/ \A declaration \in PlainDeclarations, origin \in Origin :
             \/ declaration.prop_name \notin important_styles
             \/ ~SetPropertyFromDeclaration(declaration, origin)]_vars

\* a non-important author declaration of the shorthand passed after an
\* important one of the shorthand
C5_Witness ==
    /\ ua_important.followed
    /\ ua_important.name = Marker
    /\ Marker \in important_styles
    /\ Len(props) = 3

\* C6: a declaration of user-agent origin, important or not, leaves every
\* slot that existed before with the value it had.
C6_UserAgentNeverReplaces ==
    [][\/ \A i \in DOMAIN props : i \in DOMAIN props' /\ props'[i] = props[i]
       \/ \A declaration \in StoreDeclarations :
             ~SetPropertyFromDeclaration(declaration, UserAgent)]_vars

\* an important user-agent declaration of a longhand that had a slot with
\* another value: the slot keeps it
C6_Witness ==
    /\ ua_important # NoDeclaration
    /\ ua_important.name # Marker
    /\ ua_important.prev[ua_important.name] \notin {NoValue, ua_important.sv}
    /\ StoredNow(ua_important.name) = ua_important.prev[ua_important.name]

\* C7: every important declaration passed to set_property_from_declaration
\* has its property in the important-styles set afterwards, whatever its
\* origin and whether or not it changed the store; no step removes an entry
\* of the set.
C7_ImportantAlwaysRecorded ==
    [][/\ \A declaration \in ImportantDeclarations, origin \in Origin :
             \/ declaration.prop_name \in important_styles'
             \/ ~SetPropertyFromDeclaration(declaration, origin)
       /\ important_styles \subseteq important_styles']_vars

\* two recorded properties, the later one by a user-agent declaration that
\* left the store as it was
C7_Witness ==
    /\ Cardinality(important_styles) = 2
    /\ ua_important # NoDeclaration
    /\ ua_important.name \in important_styles
    /\ \A id \in Longhands(ua_important.name) : ua_important.prev[id] # NoValue

\* C25: an important declaration of a non-shorthand property is never
\* dropped: it is recorded in the important-styles set and applied. One of
\* the author leaves its value stored, whatever was stored before (the later
\* of two important author declarations wins); one of the user agent is
\* stored only when the property had no slot, and leaves the value of an
\* earlier declaration as it was.
C25_ImportantLastAuthorWins ==
    [][\A declaration \in ImportantDeclarations :
          \/ declaration.prop_name = Marker
          \/ /\ \/ /\ declaration.prop_name \in important_styles'
                   /\ Stored(StoreNext, declaration.prop_name) = declaration.property.sv
                \/ ~SetPropertyFromDeclaration(declaration, Author)
             /\ \/ /\ declaration.prop_name \in important_styles'
                   /\ Stored(StoreNext, declaration.prop_name) =
                         IF StoredNow(declaration.prop_name) = NoValue
                         THEN declaration.property.sv
                         ELSE StoredNow(declaration.prop_name)
                \/ ~SetPropertyFromDeclaration(declaration, UserAgent)]_vars

\* an important author declaration of marker-mid that replaced the value
\* of an earlier declaration of marker-mid in the same pass
C25_Witness ==
    /\ nOps = 2
    /\ important_styles = {MarkerMid}
    /\ Len(props) = 1
    /\ ua_important = NoDeclaration
    /\ first_set[MarkerMid] \notin {NoValue, last_replace[MarkerMid]}
    /\ StoredNow(MarkerMid) = last_replace[MarkerMid]

\* every declaration of the list that parsed, passed in source order to
\* set_property_from_declaration
RECURSIVE PassedInOrder(_, _, _, _)
PassedInOrder(r, items, origin, i) ==
    IF i > Len(items) THEN r
    ELSE IF items[i].ok
    THEN PassedInOrder(set_property_from_declaration(r.st, r.styles, items[i].decl, origin),
                       items, origin, i + 1)
    ELSE PassedInOrder(r, items, origin, i + 1)

\* C27, as claimed: parse_style_declarations always returns Ok, with the
\* declarations of the list that fail to parse skipped and every
\* well-formed one, before and after them, passed to
\* set_property_from_declaration in source order. It fails: a well-formed
\* marker: inherit ends the call in the panic of set_property, nothing is
\* returned and the declarations that follow are not passed.
C27_StyleListAlwaysOk ==
    [][\A items \in StyleLists, origin \in Origin :
          \/ /\ result' = Ok
             /\ panic' = NoPanic
             /\ \A r \in {PassedInOrder([st |-> Store, styles |-> important_styles],
                                         items, origin, 1)} :
                   /\ props' = r.st.props
                   /\ indices' = r.st.indices
                   /\ important_styles' = r.styles
          \/ ~ParseStyleDeclarations(items, origin)]_vars

\* C20: once an !important declaration of the marker shorthand has been
\* imported in a merge pass (the shorthand is in the important-styles set),
\* a non-important declaration of marker-start, marker-mid or marker-end
\* leaves the value stored for that longhand as it was.
C20_ShorthandPriorityCarriedOver ==
    [][\A declaration \in PlainDeclarations, origin \in Origin :
          \/ declaration.prop_name \notin MarkerLonghands
          \/ Marker \notin important_styles
          \/ Stored(StoreNext, declaration.prop_name) = StoredNow(declaration.prop_name)
          \/ ~SetPropertyFromDeclaration(declaration, origin)]_vars

(***************************************************************************)
(* Properties of the marker shorthand.                                     *)
(***************************************************************************)
MarkerShorthand(v) == ParsedProperty(Marker, Specified(v))

\* a step that sets the shorthand to Specified(v) with the given flag
SetsMarker(v, replace) ==
    IF replace
    THEN SetParsedProperty(MarkerShorthand(v))
    ELSE SetParsedPropertyUserAgent(MarkerShorthand(v))

\* the three longhands set one by one, in the order start, mid, end
ThreeLonghands(st, v, replace) ==
    LET s1 == set_property_expanding_shorthands(
                  st, ParsedProperty(MarkerStart, Specified(v)), replace)
        s2 == set_property_expanding_shorthands(
                  s1, ParsedProperty(MarkerMid, Specified(v)), replace)
    IN  set_property_expanding_shorthands(
            s2, ParsedProperty(MarkerEnd, Specified(v)), replace)

\* C8, as claimed: setting the shorthand to Specified(v) leaves the store
\* as setting the three longhands one by one with the same flag does, and
\* the cascade of that store gives v for the three marker fields.
C8_ShorthandAsThreeLonghands ==
    [][\A v \in Values, replace \in BOOLEAN :
          SetsMarker(v, replace)
          => /\ StoreNext = ThreeLonghands(Store, v, replace)
             /\ \A seed \in Seeds :
                   \A after \in {to_computed_values(StoreNext, seed).values} :
                      \A id \in MarkerLonghands : after[id] = v]_vars

\* C8, amended: setting the shorthand to Specified(v) leaves the store as
\* setting the three longhands one by one with the same flag does; the
\* cascade of that store gives v for a marker field when replace is true or
\* the longhand had no slot, and what the cascade of the store before gave
\* for it otherwise.
C8_ShorthandAsThreeLonghandsKept ==
    [][\A v \in Values, replace \in BOOLEAN :
          SetsMarker(v, replace)
          => /\ StoreNext = ThreeLonghands(Store, v, replace)
             /\ \A seed \in Seeds :
                   \A before \in {to_computed_values(Store, seed).values},
                      after \in {to_computed_values(StoreNext, seed).values} :
                      \A id \in MarkerLonghands :
                          after[id] =
                             IF replace \/ Stored(Store, id) = NoValue
                             THEN v
                             ELSE before[id]]_vars

\* one call that filled the three slots, and a cascade over a parent with
\* other marker values that resolved the three fields to the value set
C8_Witness ==
    /\ nOps = 2
    /\ Len(props) = 3
    /\ \A id \in MarkerLonghands :
          /\ StoredNow(id) = Specified(computed[id])
          /\ parent[id] # computed[id]

\* C9: after set_parsed_property of the shorthand with Specified(v), the
\* three longhands hold Specified(v), whatever they held before.
C9_ShorthandReplacesAll ==
    [][\A v \in Values :
          \/ \A id \in MarkerLonghands : Stored(StoreNext, id) = Specified(v)
          \/ ~SetParsedProperty(MarkerShorthand(v))]_vars

\* the three longhands hold one value, which replaced another first value
\* of one of them
C9_Witness ==
    /\ \E v \in Values :
          \A id \in MarkerLonghands :
              StoredNow(id) = Specified(v) /\ last_replace[id] = Specified(v)
    /\ first_set[MarkerMid] # StoredNow(MarkerMid)
    /\ first_set[MarkerStart] = StoredNow(MarkerStart)

(***************************************************************************)
(* Properties of the cascade.                                              *)
(***************************************************************************)
\* C10: for every kind that does not inherit automatically, a pass over a
\* store that has no slot for the kind, or holds it Unspecified, writes the
\* type default into the field, whatever the parent-seeded value was.
C10_NonInheritedResetsToDefault ==
    [][\/ \A id \in Fields :
             ( /\ ~inherits_automatically(id)
               /\ Stored(Store, id) \in {NoValue, Unspecified} )
             => computed'[id] = DefaultValue(id)
       \/ \A seed \in Seeds : ~ToComputedValues(seed)]_vars

\* one set and one pass: opacity Unspecified in the store, not the default
\* in the parent, the default in the result, while an inherited kind with no
\* slot kept the parent's value
C10_Witness ==
    /\ nOps = 2
    /\ StoredNow(Opacity) = Unspecified
    /\ parent[Opacity] # DefaultValue(Opacity)
    /\ computed[Opacity] = DefaultValue(Opacity)
    /\ computed[StrokeWidth] = parent[StrokeWidth]

\* C11: for every kind, inheriting automatically or not, a pass over a store
\* that holds the kind in the Inherit state writes into the field the value
\* the parent-seeded ComputedValues held for it.
C11_InheritTakesParent ==
    [][\/ \A id \in Fields :
             Stored(Store, id) = Inherit => computed'[id] = parent'[id]
       \/ \A seed \in Seeds : ~ToComputedValues(seed)]_vars

\* opacity, which does not inherit automatically, and stroke-width, which
\* does, both stored as Inherit and resolved to a parent value that is not
\* the default
C11_Witness ==
    /\ nOps = 3
    /\ StoredNow(Opacity) = Inherit
    /\ StoredNow(StrokeWidth) = Inherit
    /\ parent[Opacity] # DefaultValue(Opacity)
    /\ computed[Opacity] = parent[Opacity]
    /\ computed[StrokeWidth] = parent[StrokeWidth]

C13_UnspecifiedInheritedTakesParent ==
    [][\/ /\ \A id \in Fields :
                ( /\ inherits_automatically(id)
                  /\ Stored(Store, id) \in {NoValue, Unspecified} )
                => computed'[id] = parent'[id]
          /\ (props = <<>> /\ parent' = ComputedValuesDefault)
             => \A id \in Fields : computed'[id] = DefaultValue(id)
       \/ \A seed \in Seeds : ~ToComputedValues(seed)]_vars

\* stroke-width stored Unspecified and font-size with no slot, both
\* resolved to parent values that are not the default
C13_Witness ==
    /\ nOps = 2
    /\ StoredNow(StrokeWidth) = Unspecified
    /\ StoredNow(FontSize) = NoValue
    /\ parent[StrokeWidth] # DefaultValue(StrokeWidth)
    /\ parent[FontSize] # DefaultValue(FontSize)
    /\ computed[StrokeWidth] = parent[StrokeWidth]
    /\ computed[FontSize] = parent[FontSize]

\* C14: in one pass font_size is written before the finalization of any
\* other kind: a font-relative baseline-shift is finalized with the font
\* size the pass computed for the element, whatever the parent's was.
C14_FontSizeComputedFirst ==
    [][\/ \A id \in FontDependentKinds \ {FontSize} :
             Stored(Store, id) = Specified(FontRelative)
             => computed'[id] = computed'[FontSize]
       \/ \A seed \in Seeds : ~ToComputedValues(seed)]_vars

\* a font size specified for the element that is not the parent's, and a
\* font-relative baseline-shift finalized with it
C14_Witness ==
    /\ nOps = 3
    /\ StoredNow(FontSize).state = "Specified"
    /\ StoredNow(FontSize).v \in Values
    /\ StoredNow(FontSize).v # parent[FontSize]
    /\ StoredNow(BaselineShift) = Specified(FontRelative)
    /\ computed[FontSize] = StoredNow(FontSize).v
    /\ computed[BaselineShift] = computed[FontSize]

(***************************************************************************)
(* Properties of the presentation-attribute adapter.                       *)
(***************************************************************************)
\* the attribute at position i of a bag has a well-formed value and no
\* later attribute of the bag with a well-formed value has its name
LastWellFormed(pbag, i) ==
    /\ pbag[i].value.token = "value"
    /\ \A j \in DOMAIN pbag :
          (j > i /\ pbag[j].attr = pbag[i].attr) => pbag[j].value.token # "value"

\* C15: parse_presentation_attributes returns Ok for every bag, and every
\* attribute of the bag with a well-formed value is parsed and stored,
\* whatever malformed values come before it, those of xml:lang and
\* xml:space included.
C15_BagParsedPastMalformedValues ==
    [][\A pbag \in Bags :
          ParsePresentationAttributes(pbag)
          => /\ result' = Ok
             /\ \A i \in DOMAIN pbag :
                   LastWellFormed(pbag, i)
                   => Stored(StoreNext, pbag[i].attr) = Specified(pbag[i].value.v)]_vars

\* C16: parse_one_presentation_attribute returns Ok whatever parse_property
\* returned, and a malformed value of a recognized property leaves indices
\* and props as they were, so the value stored for the property is kept.
C16_MalformedValueKeepsStore ==
    [][\A a \in Attributes :
          \/ /\ result' = Ok
             /\ (a.attr \in Catalogue /\ a.value.token \in ErrorKinds)
                => /\ UNCHANGED <<indices, props>>
                   /\ Stored(StoreNext, a.attr) = Stored(Store, a.attr)
          \/ ~ParseOnePresentationAttribute(a.attr, a.value)]_vars

\* stroke-width stored by one call, then given a malformed value by the
\* next: Ok returned, the stored value kept
C16_Witness ==
    /\ nOps = 2
    /\ last_parse.attr = StrokeWidth
    /\ last_parse.kind \in ErrorKinds
    /\ result = Ok
    /\ StoredNow(StrokeWidth) = Specified(MaxVal)

\* C17: an attribute whose name the catalogue does not have, and the
\* attribute named marker, leave indices and props as they were and Ok is
\* returned, whatever the value: no marker longhand is set.
C17_UnknownAndShorthandIgnored ==
    [][\A a \in Attributes :
          \/ a.attr \in Catalogue \ {Marker}
          \/ /\ UNCHANGED <<indices, props>>
             /\ result' = Ok
          \/ ~ParseOnePresentationAttribute(a.attr, a.value)]_vars

\* the attribute marker with a well-formed value, after a stroke-width
\* was stored: Ok returned, no marker longhand in the store
C17_Witness ==
    /\ nOps = 2
    /\ last_parse = [attr |-> Marker, token |-> "value", kind |-> UnknownProperty]
    /\ result = Ok
    /\ Len(props) = 1
    /\ StoredNow(StrokeWidth) # NoValue
    /\ \A id \in MarkerLonghands : StoredNow(id) = NoValue

(***************************************************************************)
(* Properties of the query helpers.                                        *)
(***************************************************************************)
\* C18: is_visible returns false whenever display is None, whatever the
\* visibility, and otherwise true exactly when visibility is Visible.
C18_VisibleUnlessDisplayNone ==
    [][\/ ~IsVisible
       \/ /\ computed[Display] = DisplayNone => answer'.value = FALSE
          /\ computed[Display] # DisplayNone
             => answer'.value = (computed[Visibility] = VisibilityVisible)]_vars

\* display None with visibility Visible in the computed values: false
C18_Witness ==
    /\ answer = [query |-> "is_visible", value |-> FALSE]
    /\ computed[Display] = DisplayNone
    /\ computed[Visibility] = VisibilityVisible

\* C19: ComputedValues::is_overflow returns true exactly when the computed
\* overflow is Auto or Visible; SpecifiedValues::is_overflow returns true
\* exactly when the store holds overflow as Specified(Auto) or
\* Specified(Visible), and false when overflow has no slot or is
\* Unspecified or Inherit.
C19_OverflowAutoOrVisible ==
    [][/\ \/ ~IsOverflow
          \/ answer'.value = (computed[Overflow] \in {OverflowAuto, OverflowVisible})
       /\ \/ ~SpecifiedIsOverflow
          \/ /\ answer'.value =
                   (StoredNow(Overflow) \in
                       {Specified(OverflowAuto), Specified(OverflowVisible)})
             /\ StoredNow(Overflow) \in {NoValue, Unspecified, Inherit}
                => answer'.value = FALSE]_vars

\* overflow stored as Inherit and computed to Auto from the parent: the
\* query of the store is false
C19_Witness ==
    /\ answer = [query |-> "specified_is_overflow", value |-> FALSE]
    /\ StoredNow(Overflow) = Inherit
    /\ computed[Overflow] = OverflowAuto

StoredIds(st) == {id \in PropertyIds : st.indices[id] # UnsetProperty}
Rank(st, id) == Cardinality({other \in StoredIds(st) : other < id})
SortedStore(st) ==
    [st EXCEPT
        !.indices = [id \in PropertyIds |->
                        IF id \in StoredIds(st) THEN Rank(st, id) ELSE UnsetProperty],
        !.props = [i \in 1 .. Cardinality(StoredIds(st)) |->
                      LET id == CHOOSE id \in StoredIds(st) : Rank(st, id) = i - 1
                      IN  ParsedProperty(id, Stored(st, id))]]

\* C28: the values to_computed_values gives do not depend on the positions
\* of the slots: a store gives what the store with the same value for every
\* identity and the slots in the order of the enum gives, over the same
\* parent-seeded values; so any two stores with the same values give the
\* same.
C28_SlotOrderIrrelevant ==
    [][\A seed \in Seeds :
          \/ parent' # seed
          \/ \A st \in {SortedStore(StoreNext)} :
                to_computed_values(st, seed).values = computed'
          \/ ~ToComputedValues(seed)]_vars

\* font-size stored before baseline-shift, against the order of the enum,
\* and the baseline shift computed from the font size of the same pass
C28_Witness ==
    /\ nOps = 3
    /\ indices[FontSize] = 0
    /\ indices[BaselineShift] = 1
    /\ StoredNow(FontSize) = Specified(MaxVal)
    /\ StoredNow(BaselineShift) = Specified(FontRelative)
    /\ parent[FontSize] # MaxVal
    /\ computed[FontSize] = MaxVal
    /\ computed[BaselineShift] = MaxVal

\* C29: when SpecifiedValues::is_overflow is true for a store,
\* ComputedValues::is_overflow is true for the values to_computed_values
\* gives for that store, whatever the parent-seeded values.
C29_ShortcutSound ==
    [][\/ ~specified_is_overflow(Store).value
       \/ is_overflow(computed')
       \/ \A seed \in Seeds : ~ToComputedValues(seed)]_vars

\* overflow: auto stored, cascaded over a parent with another overflow, and
\* the shortcut asked after the cascade
C29_Witness ==
    /\ nOps = 3
    /\ StoredNow(Overflow) = Specified(OverflowAuto)
    /\ parent[Overflow] # OverflowAuto
    /\ computed[Overflow] = OverflowAuto
    /\ answer = [query |-> "specified_is_overflow", value |-> TRUE]

(***************************************************************************)
(* Properties of the element stack of XmlState.                            *)
(***************************************************************************)
\* the depth of a node in the tree of nodes: 0 for no node
RECURSIVE Depth(_, _)
Depth(ns, node) ==
    IF node = <<>> THEN 0 ELSE 1 + Depth(ns, ns[node[1]].parent)

\* a start that pushes one name and makes the new node, a child of the
\* current one, current
StartPushes(name) ==
    /\ element_name_stack' = Append(element_name_stack, name)
    /\ Len(nodes') = Len(nodes) + 1
    /\ current_node' = <<Len(nodes')>>
    /\ nodes'[Len(nodes')].parent = current_node

\* an end that pops the topmost name and makes the parent current when the
\* name is the topmost one, and leaves both as they were when it is not
EndPops(name) ==
    IF element_name_stack # <<>> /\ element_name_stack[Len(element_name_stack)] = name
    THEN /\ element_name_stack' = SubSeq(element_name_stack, 1, Len(element_name_stack) - 1)
         /\ current_node # <<>>
         /\ current_node' = nodes[current_node[1]].parent
    ELSE UNCHANGED <<element_name_stack, current_node>>

MatchingEnd(name) ==
    /\ current_node # <<>>
    /\ element_name_stack # <<>>
    /\ element_name_stack[Len(element_name_stack)] = name

\* C31, as claimed: the style attributes of every element are parsed
\* exactly once, of an element that is not an svg node during its start
\* event, of an svg node during its matching end event and at no other
\* event. It fails: every end event met while an svg node is current parses
\* the style attributes of that node, whether or not its name matches, so
\* an end with another name parses them and the matching end parses them
\* again.
C31_StylesParsedOnce ==
    [][/\ \A n \in DOMAIN nodes' : nodes'[n].styles_parsed <= 1
       /\ \A name \in ElementNames, is_svg \in BOOLEAN :
             \/ ~StandardElementStart(name, is_svg)
             \/ panic' # NoPanic
             \/ /\ nodes'[Len(nodes')].styles_parsed = IF is_svg THEN 0 ELSE 1
                /\ \A n \in DOMAIN nodes :
                      nodes'[n].styles_parsed = nodes[n].styles_parsed
       /\ \A name \in ElementNames :
             \/ \A n \in DOMAIN nodes :
                   nodes'[n].styles_parsed =
                      IF /\ MatchingEnd(name)
                         /\ n = current_node[1]
                         /\ nodes[n].type = NodeSvg
                      THEN nodes[n].styles_parsed + 1
                      ELSE nodes[n].styles_parsed
             \/ ~StandardElementEnd(name)]_vars

\* a start of an svg element made while there is no current node
RootStart ==
    /\ current_node = <<>>
    /\ \E name \in ElementNames : StandardElementStart(name, TRUE)

CharsChildren ==
    LET IsChars(child) == nodes[child].type = NodeChars
    IN  SelectSeq(nodes[current_node[1]].children, IsChars)

\* the text appended to the chars node c, and nothing else changed
AppendedTo(c, text) ==
    /\ nodes' = [nodes EXCEPT ![c].text = @ \o text]
    /\ UNCHANGED <<tree, current_node, element_name_stack>>

\* a chars node with the text created as the last child of the current
\* node, and nothing else changed
CreatedWith(text) ==
    /\ Len(nodes') = Len(nodes) + 1
    /\ nodes'[Len(nodes')].type = NodeChars
    /\ nodes'[Len(nodes')].parent = current_node
    /\ nodes'[Len(nodes')].text = text
    /\ nodes'[current_node[1]].children =
          Append(nodes[current_node[1]].children, Len(nodes'))
    /\ \A n \in DOMAIN nodes \ {current_node[1]} : nodes'[n] = nodes[n]
    /\ UNCHANGED <<tree, current_node, element_name_stack>>

MoveTos(segments) == {i \in DOMAIN segments : segments[i].kind = "MoveTo"}

\* C34: after any sequence of move_to, line_to, curve_to and close_path,
\* last_move_to_index is None when the path has no MoveTo, and otherwise the
\* index of the latest MoveTo of path_segments; no call ends in the
\* unreachable!() of close_path or out of the bounds of the path; and every
\* step keeps the segments the path had.
C34_LastMoveToIsLatest ==
    [][/\ panic' = NoPanic
       /\ IF MoveTos(path_segments') = {}
          THEN last_move_to_index' = <<>>
          ELSE /\ last_move_to_index' # <<>>
               /\ last_move_to_index'[1] + 1 \in MoveTos(path_segments')
               /\ \A i \in MoveTos(path_segments') : i <= last_move_to_index'[1] + 1
       /\ Len(path_segments') >= Len(path_segments)
       /\ SubSeq(path_segments', 1, Len(path_segments)) = path_segments]_vars

\* a move-to, two other segments and a close: the last move-to is the
\* segment the close appended
C34_Witness ==
    /\ nOps = 4
    /\ Len(path_segments) = 4
    /\ MoveTos(path_segments) = {1, 4}
    /\ path_segments[2].kind = "LineTo"
    /\ path_segments[3].kind = "CurveTo"
    /\ last_move_to_index = <<3>>
    /\ path_segments[4] = path_segments[1]

\* C35: close_path leaves the builder unchanged when no move_to has
\* happened; otherwise it appends exactly one MoveTo with the coordinates of
\* the most recent MoveTo and makes the new segment the last move-to, so a
\* second close_path in a row appends the same MoveTo again.
C35_ClosePathRepeatsMoveTo ==
    [][\/ ~PathClosePath
       \/ IF MoveTos(path_segments) = {}
          THEN UNCHANGED pathVars
          ELSE \A latest \in {CHOOSE i \in MoveTos(path_segments) :
                                  \A j \in MoveTos(path_segments) : j <= i} :
                  /\ path_segments' = Append(path_segments, path_segments[latest])
                  /\ last_move_to_index' = <<Len(path_segments)>>]_vars

\* a move-to away from the origin, a line and two closes in a row: the
\* same MoveTo appended twice
C35_Witness ==
    /\ nOps = 4
    /\ Len(path_segments) = 4
    /\ path_segments[1].kind = "MoveTo"
    /\ path_segments[1].points # <<<<0, 0>>>>
    /\ path_segments[2].kind = "LineTo"
    /\ path_segments[3] = path_segments[1]
    /\ path_segments[4] = path_segments[1]
    /\ last_move_to_index = <<3>>
====
